---- MODULE Spec2Model ----
(***************************************************************************)
(* podcast-monitor-service (src/index.js): cron- and HTTP-triggered feed    *)
(* checks and daily digests over an external data store.  Every `await` of  *)
(* the source is one step of a run; runs started by different triggers      *)
(* interleave at these steps, as they do on the Node.js event loop.         *)
(* Time is counted in hours.                                                *)
(***************************************************************************)
EXTENDS Integers, Sequences, FiniteSets

\* ---- bounds of the model ------------------------------------------------
NumPodcasts == 2      \* rows of the podcasts table
MaxItems    == 1      \* feed items published over a behaviour
MaxEpisodes == 2      \* rows of the episodes table
MaxStarts   == 2      \* runs started over a behaviour
MaxTicks    == 1      \* clock advances over a behaviour

\* ---- program constants --------------------------------------------------
DayHours    == 24                  \* 24 * 60 * 60 * 1000 ms
CheckHours  == {8, 14, 20}         \* cron '0 8,14,20 * * *'
DigestHours == {8}                 \* cron '0 8 * * *'
TickHours   == 6                   \* the clock moves from one cron hour to the next

\* ---- the environment's dates ---------------------------------------------
StartHour == DayHours + 8          \* the service is observed from 08:00 of the second day
OldDate   == StartHour - DayHours - TickHours   \* a publish date more than a day ago

NullDate == 0 - 1                  \* last_checked IS NULL
Null     == "null"

PodcastIds == 1 .. NumPodcasts
RunIds     == 1 .. MaxStarts
\* interest_topics: topic 1 is active, topic 2 is not
TopicIds     == {1, 2}
ActiveTopics == {1}

VARIABLES
  service,      \* module initialisation: "loading", then "up" or "crashed"
  clock,        \* Date.now(), in hours
  cronFired,    \* the cron jobs that already fired at this clock value
  podcasts,     \* podcasts table: id -> [is_active, last_checked]
  feed,         \* the RSS feed of each podcast: id -> sequence of items
  fresh,        \* history: items whose pubDate was later than last_checked when they appeared
  episodes,     \* episodes table, row id = index
  topic_flags,  \* topic_flags table
  runs,         \* the invocations of checkAllFeeds / sendDailyDigest
  started,      \* runs started so far
  hist,         \* history of each episode row's AI pipeline
  emails        \* messages handed to the mail relay

vars == << service, clock, cronFired, podcasts, feed, fresh, episodes, topic_flags,
           runs, started, hist, emails >>

\* ---- pure helpers -------------------------------------------------------

\* line 84: podcast.last_checked ? new Date(podcast.last_checked) : new Date(0)
LastCheckedDate(lc) == IF lc = NullDate THEN 0 ELSE lc

\* line 92: publishDate > lastChecked
IsNewItem(item, lastChecked) == item.pubDate > lastChecked

\* lines 88-96: the next position >= from of an item the loop hands on, 0 if none
RECURSIVE NextNew(_, _, _)
NextNew(items, from, lastChecked) ==
  IF from > Len(items) THEN 0
  ELSE IF IsNewItem(items[from], lastChecked) THEN from
  ELSE NextNew(items, from + 1, lastChecked)

\* lines 57-60: select * from podcasts where is_active, in id order
RECURSIVE SelectActive(_, _)
SelectActive(tbl, from) ==
  IF from > NumPodcasts THEN << >>
  ELSE (IF tbl[from].is_active
          THEN << [id |-> from, last_checked |-> tbl[from].last_checked] >>
          ELSE << >>) \o SelectActive(tbl, from + 1)

\* lines 453-454: JSON.parse(ep.ai_summary || '{}').priority_episode
ParsePriority(ai_summary) == ai_summary = "PriorityJson"

\* lines 378-382: JSON.stringify({...JSON.parse(episode.ai_summary || '{}'),
\* priority_episode: true, priority_topics}) of the row as it was inserted
PriorityMetadata(ai_summary) == "PriorityJson"

Range(s) == { s[i] : i \in 1 .. Len(s) }

\* lines 422-424: .gte('published_at', yesterday).eq('processed', true)
Eligible(rows, now) ==
  { i \in 1 .. Len(rows) :
      rows[i].processed /\ rows[i].published_at >= now - DayHours }

\* line 424: order by published_at descending (ties by row id)
RECURSIVE OrderDesc(_, _)
OrderDesc(rows, ids) ==
  IF ids = {} THEN << >>
  ELSE LET top == CHOOSE i \in ids :
                    \A j \in ids :
                      \/ rows[i].published_at > rows[j].published_at
                      \/ rows[i].published_at = rows[j].published_at /\ i <= j
       IN << top >> \o OrderDesc(rows, ids \ {top})

\* lines 451-458 and 487: the two sections of the digest
PriorityEpisodes(rows, list) == SelectSeq(list, LAMBDA i : ParsePriority(rows[i].ai_summary))
RegularEpisodes(rows, list) ==
  LET prio == Range(PriorityEpisodes(rows, list))
  IN SelectSeq(list, LAMBDA i : i \notin prio)

\* ---- runs ---------------------------------------------------------------

IdleRun ==
  [ kind |-> "none", trigger |-> "none", pc |-> "idle",
    podcasts |-> << >>, idx |-> 0,             \* checkAllFeeds: the selected rows, loop index
    items |-> << >>, pos |-> 0,                \* processPodcastFeed: feed.items, loop index
    fetched |-> FALSE,                         \* processPodcastFeed: parseURL has returned the feed
    episode |-> 0, aiSummary |-> Null, topicFlags |-> {},   \* processEpisodeAI locals
    priority |-> << >>, regular |-> << >>,     \* generateDigestHTML: the two sections
    to |-> Null,                               \* sendDailyDigest: settings.email
    stamp |-> NullDate,                        \* new Date() / Date.now() of a pending request
    visited |-> << >>, handed |-> {},          \* history: podcasts / items processed
    before |-> {},                             \* history: the runs that had returned at the start
    caught |-> FALSE ]                         \* history: an error was caught

\* the operation of run r has been called and has not returned
Active(r) == runs[r].pc \notin {"idle", "returned", "done"}

\* the runs that have returned
Returned == { r \in RunIds : runs[r].pc \in {"returned", "done"} }

\* lines 73-75: the catch of checkAllFeeds logs the error and returns normally
CheckAllFeedsThrows(caught) == FALSE

\* lines 444-446: the catch of sendDailyDigest logs the error and returns normally
SendDailyDigestThrows(caught) == FALSE

\* lines 604-620: res.json({success: true}) after the awaited operation returned,
\* res.status(500) when it threw; a cron callback sends nothing
HandlerReply(rec) ==
  IF rec.trigger # "http" THEN 0
  ELSE IF (IF rec.kind = "check" THEN CheckAllFeedsThrows(rec.caught)
                                 ELSE SendDailyDigestThrows(rec.caught))
       THEN 500 ELSE 200

\* the operation returns to the callback that awaits it
Finish(rec) ==
  [ IdleRun EXCEPT !.kind = rec.kind, !.trigger = rec.trigger, !.pc = "returned",
                   !.visited = rec.visited, !.caught = rec.caught ]

\* a caught error is logged (console.error); history only
Caught(rec) == [ rec EXCEPT !.caught = TRUE ]

\* line 84: lastChecked, from the row selected at the start of the run
LastChecked(rec) == LastCheckedDate(rec.podcasts[rec.idx].last_checked)

\* lines 88-102: the for-loop over feed.items moves on to the next new item, and
\* after the last one processPodcastFeed requests the update of last_checked
\* with the time of the request (new Date(), line 101)
NextItem(rec) ==
  LET k == NextNew(rec.items, rec.pos + 1, LastChecked(rec))
      base == [ rec EXCEPT !.episode = 0, !.aiSummary = Null, !.topicFlags = {} ]
  IN IF k = 0
       THEN [ base EXCEPT !.pc = "p_update", !.pos = Len(rec.items), !.stamp = clock ]
       ELSE [ base EXCEPT !.pc = "e_insert", !.pos = k,
                          !.handed = rec.handed \cup { rec.items[k].id } ]

\* lines 108-110: the catch of processPodcastFeed ends the work on this
\* podcast; checkAllFeeds goes on to its delay
CatchPodcastFeed(rec) ==
  [ Caught(rec) EXCEPT !.pc = "c_delay", !.episode = 0, !.aiSummary = Null,
                       !.topicFlags = {} ]

\* a faulty variant of the catch of processNewEpisode: the error is thrown on
\* to the catch of processPodcastFeed, which leaves the rest of the feed
CatchNewEpisodeRethrows(rec) == CatchPodcastFeed(rec)

\* lines 141-143: the catch of processNewEpisode; the item loop goes on
CatchNewEpisode(rec) == NextItem(Caught(rec))

\* lines 66-70: after the delay, the next podcast or the end of checkAllFeeds
NextPodcast(rec) ==
  IF rec.idx < Len(rec.podcasts)
    THEN [ rec EXCEPT !.idx = rec.idx + 1, !.pc = "p_fetch",
                      !.items = << >>, !.pos = 0, !.fetched = FALSE, !.handed = {},
                      !.visited = Append(rec.visited, rec.podcasts[rec.idx + 1].id) ]
    ELSE Finish(rec)

\* history of a row: how often each stage was invoked for it, whether the
\* priority metadata of its topic analysis was written to it, and whether its
\* podcast's last_checked was advanced after the row was inserted; the run that
\* inserted it and the runs that had returned when that run started
NewHist == [ transcribeN |-> 0, summarizeN |-> 0, flagN |-> 0, priorityStored |-> FALSE,
             advanced |-> FALSE, run |-> 0, before |-> {} ]

\* feed items published so far
RECURSIVE ItemCount(_)
ItemCount(p) == IF p = 0 THEN 0 ELSE Len(feed[p]) + ItemCount(p - 1)

SetRun(r, rec) == runs' = [ runs EXCEPT ![r] = rec ]

\* ---- initial state ------------------------------------------------------

\* The process has been started and the module is about to be evaluated.  The
\* scenario observed: it is 08:00, podcast 1 is active and podcast 2 is not,
\* no podcast has been checked before, the feeds and the tables of episodes
\* and flags are empty.
Init ==
  /\ service = "loading"
  /\ clock = StartHour
  /\ cronFired = {}
  /\ podcasts = [ p \in PodcastIds |-> [ is_active |-> (p = 1), last_checked |-> NullDate ] ]
  /\ feed = [ p \in PodcastIds |-> << >> ]
  /\ fresh = {}
  /\ episodes = << >>
  /\ topic_flags = {}
  /\ runs = [ r \in RunIds |-> IdleRun ]
  /\ started = 0
  /\ hist = << >>
  /\ emails = << >>

\* ---- module initialisation ------------------------------------------------

\* lines 12-51 and 600-627: the module is evaluated once.  Line 29 calls
\* nodemailer.createTransporter: with a nodemailer module that has no such
\* export (the published package exports createTransport) the call throws,
\* the process ends, and no cron job and no route is ever registered; with a
\* module that provides it the cron jobs and the routes are registered.
LoadModule ==
  /\ service = "loading"
  /\ \E hasCreateTransporter \in BOOLEAN :
       service' = IF hasCreateTransporter THEN "up" ELSE "crashed"
  /\ UNCHANGED << clock, cronFired, podcasts, feed, fresh, episodes, topic_flags, runs,
                  started, hist, emails >>

\* ---- the environment ----------------------------------------------------

\* time passes (module initialisation takes none of it); node-cron may fire
\* again at the new hour
Tick ==
  /\ service # "loading"
  /\ clock < StartHour + MaxTicks * TickHours
  /\ clock' = clock + TickHours
  /\ cronFired' = {}
  /\ UNCHANGED << service, podcasts, feed, fresh, episodes, topic_flags, runs,
                  started, hist, emails >>

\* a publisher adds an item at the head of a feed; its pubDate is the current
\* time, a time in the past or a time in the future.  An item dated `clock` is
\* published before any last_checked written at `clock`.
Publish ==
  /\ ItemCount(NumPodcasts) < MaxItems
  /\ \E p \in PodcastIds, date \in { OldDate, clock, clock + TickHours }, audio \in BOOLEAN :
       /\ date = clock => podcasts[p].last_checked # clock
       /\ LET id == Len(feed[p]) + 1
          IN /\ feed' = [ feed EXCEPT ![p] =
                            << [ id |-> id, pubDate |-> date, audio |-> audio ] >> \o feed[p] ]
             /\ fresh' = IF date > LastCheckedDate(podcasts[p].last_checked)
                           THEN fresh \cup { << p, id >> } ELSE fresh
  /\ UNCHANGED << service, clock, cronFired, podcasts, episodes, topic_flags, runs,
                  started, hist, emails >>

\* ---- triggers -----------------------------------------------------------

\* the body shared by the four triggers: the operation is called at once,
\* whatever else is in progress, and runs up to its first await
StartRun(kind, trigger) ==
  /\ service = "up"
  /\ started < MaxStarts
  /\ started' = started + 1
  /\ SetRun(started + 1,
            [ IdleRun EXCEPT !.kind = kind, !.trigger = trigger, !.before = Returned,
                             !.pc = IF kind = "check" THEN "c_select" ELSE "d_settings" ])

\* lines 42-45
CronCheck ==
  /\ (clock % DayHours) \in CheckHours
  /\ "check" \notin cronFired
  /\ cronFired' = cronFired \cup { "check" }
  /\ StartRun("check", "cron")
  /\ UNCHANGED << service, clock, podcasts, feed, fresh, episodes, topic_flags,
                  hist, emails >>

\* lines 48-51
CronDigest ==
  /\ (clock % DayHours) \in DigestHours
  /\ "digest" \notin cronFired
  /\ cronFired' = cronFired \cup { "digest" }
  /\ StartRun("digest", "cron")
  /\ UNCHANGED << service, clock, podcasts, feed, fresh, episodes, topic_flags,
                  hist, emails >>

\* lines 604-606
PostCheckFeeds ==
  /\ StartRun("check", "http")
  /\ UNCHANGED << service, clock, cronFired, podcasts, feed, fresh, episodes, topic_flags, hist, emails >>

\* lines 613-615
PostSendDigest ==
  /\ StartRun("digest", "http")
  /\ UNCHANGED << service, clock, cronFired, podcasts, feed, fresh, episodes, topic_flags, hist, emails >>

\* ---- checkAllFeeds ------------------------------------------------------

\* lines 57-67: the select of the active podcasts returns; on an error the
\* function's catch ends it, otherwise the loop calls processPodcastFeed for
\* the first row
SelectPodcasts(r) ==
  /\ runs[r].pc = "c_select"
  /\ \E ok \in BOOLEAN :
       LET rec == runs[r]
           rows == SelectActive(podcasts, 1)
       IN SetRun(r, IF ~ok THEN Finish(Caught(rec))
                    ELSE IF rows = << >> THEN Finish(rec)
                    ELSE [ rec EXCEPT !.podcasts = rows, !.idx = 1, !.pc = "p_fetch",
                                      !.visited = << rows[1].id >> ])
  /\ UNCHANGED << service, clock, cronFired, podcasts, feed, fresh, episodes, topic_flags, started, hist, emails >>

\* lines 83-96: parser.parseURL returns the feed (or throws); lastChecked comes
\* from the row selected at the start of the run
FetchFeed(r) ==
  /\ runs[r].pc = "p_fetch"
  /\ \E ok \in BOOLEAN :
       LET rec == runs[r]
           row == rec.podcasts[rec.idx]
       IN SetRun(r, IF ~ok THEN CatchPodcastFeed(rec)
                    ELSE NextItem([ rec EXCEPT !.items = feed[row.id], !.pos = 0,
                                               !.fetched = TRUE ]))
  /\ UNCHANGED << service, clock, cronFired, podcasts, feed, fresh, episodes, topic_flags, started, hist, emails >>

\* lines 98-102: the update of last_checked returns; it wrote the time of the
\* request, and its result is not looked at
UpdateLastChecked(r) ==
  /\ runs[r].pc = "p_update"
  /\ \E ok \in BOOLEAN :
       LET rec == runs[r]
           id == rec.podcasts[rec.idx].id
       IN /\ podcasts' = IF ok THEN [ podcasts EXCEPT ![id].last_checked = rec.stamp ]
                               ELSE podcasts
          /\ hist' = [ e \in 1 .. Len(hist) |->
                         IF ok /\ episodes[e].podcast_id = id
                           THEN [ hist[e] EXCEPT !.advanced = TRUE ] ELSE hist[e] ]
          /\ SetRun(r, [ rec EXCEPT !.pc = "c_delay", !.stamp = NullDate ])
  /\ UNCHANGED << service, clock, cronFired, feed, fresh, episodes, topic_flags, started, emails >>

\* lines 68-72: the 2 s delay is over
Delay(r) ==
  /\ runs[r].pc = "c_delay"
  /\ SetRun(r, NextPodcast(runs[r]))
  /\ UNCHANGED << service, clock, cronFired, podcasts, feed, fresh, episodes, topic_flags, started, hist, emails >>

\* ---- processNewEpisode / processEpisodeAI --------------------------------

\* lines 117-139: the insert returns the new row (or an error, thrown to the
\* catch of processNewEpisode); processEpisodeAI starts with the row
InsertEpisode(r) ==
  /\ runs[r].pc = "e_insert"
  /\ LET rec == runs[r]
         item == rec.items[rec.pos]
         row == [ podcast_id |-> rec.podcasts[rec.idx].id, item |-> item.id,
                  audio_url |-> item.audio, published_at |-> item.pubDate,
                  processed |-> FALSE, transcript |-> Null, ai_summary |-> Null ]
     IN \/ /\ Len(episodes) < MaxEpisodes
           /\ episodes' = Append(episodes, row)
           /\ hist' = Append(hist, [ NewHist EXCEPT !.run = r, !.before = rec.before ])
           /\ SetRun(r, [ rec EXCEPT !.pc = "a_transcribe", !.episode = Len(episodes) + 1 ])
        \/ /\ SetRun(r, CatchNewEpisode(rec))
           /\ UNCHANGED << episodes, hist >>
  /\ UNCHANGED << service, clock, cronFired, podcasts, feed, fresh, topic_flags, started, emails >>

\* a faulty variant of lines 154-157: transcription is tried again
NoTranscriptRetries(rec) == [ rec EXCEPT !.pc = "a_transcribe" ]

\* lines 154-157: without a transcript processEpisodeAI returns, and the item
\* loop goes on
NoTranscript(rec) == NextItem(rec)

\* lines 152 and 190-203: transcribeAudio returns null at once without an audio
\* URL; else the download of the audio answers, or throws to the catch of
\* transcribeAudio, which returns null
Transcribe(r) ==
  /\ runs[r].pc = "a_transcribe"
  /\ \E ok \in BOOLEAN :
       LET rec == runs[r]
           e == rec.episode
       IN /\ hist' = [ hist EXCEPT ![e].transcribeN = @ + 1 ]
          /\ IF ~episodes[e].audio_url
               THEN ok /\ SetRun(r, NoTranscript(rec))
               ELSE SetRun(r, IF ok THEN [ rec EXCEPT !.pc = "a_write" ]
                              ELSE NoTranscript(Caught(rec)))
  /\ UNCHANGED << service, clock, cronFired, podcasts, feed, fresh, episodes, topic_flags, started, emails >>

\* lines 205-213: the temporary file is written ('finish'), or the stream
\* fails ('error') and the catch returns null
WriteAudio(r) ==
  /\ runs[r].pc = "a_write"
  /\ \E ok \in BOOLEAN :
       LET rec == runs[r]
       IN SetRun(r, IF ok THEN [ rec EXCEPT !.pc = "a_whisper" ]
                    ELSE NoTranscript(Caught(rec)))
  /\ UNCHANGED << service, clock, cronFired, podcasts, feed, fresh, episodes, topic_flags, started,
                  hist, emails >>

\* lines 215-241 and 154-157: the transcription API answers with a text, which
\* may be empty, or the call throws and the catch returns null; without a
\* transcript processEpisodeAI returns
Whisper(r) ==
  /\ runs[r].pc = "a_whisper"
  /\ \E answer \in { "Text", "", "error" } :
       LET rec == runs[r]
       IN SetRun(r, IF answer = "error" THEN NoTranscript(Caught(rec))
                    ELSE IF answer = "" THEN NoTranscript(rec)
                    ELSE [ rec EXCEPT !.pc = "a_summarize" ])
  /\ UNCHANGED << service, clock, cronFired, podcasts, feed, fresh, episodes, topic_flags, started,
                  hist, emails >>

\* lines 160 and 244-296: the completion's text, or the fallback JSON after a
\* caught error
Summarize(r) ==
  /\ runs[r].pc = "a_summarize"
  /\ \E ok \in BOOLEAN :
       LET rec == runs[r]
       IN /\ hist' = [ hist EXCEPT ![rec.episode].summarizeN = @ + 1 ]
          /\ SetRun(r, IF ok THEN [ rec EXCEPT !.pc = "f_topics", !.aiSummary = "SummaryJson" ]
                       ELSE [ Caught(rec) EXCEPT !.pc = "f_topics",
                                                 !.aiSummary = "FallbackJson" ])
  /\ UNCHANGED << service, clock, cronFired, podcasts, feed, fresh, episodes, topic_flags, started, emails >>

\* lines 163 and 302-307: flagInterestTopics selects the active topics; without
\* any (or without data) it returns []
SelectTopics(r) ==
  /\ runs[r].pc = "f_topics"
  /\ \E ok \in BOOLEAN :
       LET rec == runs[r]
           e == rec.episode
           h == [ hist EXCEPT ![e].flagN = @ + 1 ]
       IN IF ok /\ ActiveTopics # {}
            THEN /\ hist' = h
                 /\ SetRun(r, [ rec EXCEPT !.pc = "f_llm" ])
            ELSE /\ hist' = h
                 /\ SetRun(r, [ rec EXCEPT !.pc = "a_update", !.topicFlags = {} ])
  /\ UNCHANGED << service, clock, cronFired, podcasts, feed, fresh, episodes, topic_flags, started, emails >>

\* lines 354-371: the flags of the analysis whose topic is one of the selected
\* (active) topics
MatchTopics(named) == named \cap ActiveTopics

\* lines 338-374 and 389-392: the completion returns an analysis (or the call or
\* JSON.parse throws, and the catch returns []); a priority episode goes on to
\* the metadata update before flagInterestTopics returns
AnalyzeTopics(r) ==
  /\ runs[r].pc = "f_llm"
  /\ LET rec == runs[r]
         e == rec.episode
     IN \/ /\ hist' = hist
           /\ SetRun(r, [ Caught(rec) EXCEPT !.pc = "a_update", !.topicFlags = {} ])
        \/ \E priority_episode \in BOOLEAN, named \in SUBSET TopicIds :
             IF priority_episode
               THEN /\ hist' = hist
                    /\ SetRun(r, [ rec EXCEPT !.pc = "f_priority",
                                              !.topicFlags = MatchTopics(named) ])
               ELSE /\ hist' = hist
                    /\ SetRun(r, [ rec EXCEPT !.pc = "a_update",
                                              !.topicFlags = MatchTopics(named) ])
  /\ UNCHANGED << service, clock, cronFired, podcasts, feed, fresh, episodes, topic_flags, started, emails >>

\* lines 374-387: the priority metadata is written to the row's ai_summary
\* (built from the row as inserted), then flagInterestTopics returns its flags
UpdatePriority(r) ==
  /\ runs[r].pc = "f_priority"
  /\ \E ok \in BOOLEAN :
       LET rec == runs[r]
           e == rec.episode
       IN /\ episodes' = IF ok THEN [ episodes EXCEPT ![e].ai_summary = PriorityMetadata(Null) ]
                               ELSE episodes
          /\ hist' = IF ok THEN [ hist EXCEPT ![e].priorityStored = TRUE ] ELSE hist
          /\ SetRun(r, [ rec EXCEPT !.pc = "a_update" ])
  /\ UNCHANGED << service, clock, cronFired, podcasts, feed, fresh, topic_flags, started, emails >>

\* lines 165-173: the row the update of step 4 writes
AnalysedRow(row, aiSummary) ==
  [ row EXCEPT !.transcript = "Text", !.ai_summary = aiSummary, !.processed = TRUE ]

\* lines 165-180: step 4 updates the row (the result is not looked at); with
\* flags step 5 follows, else processEpisodeAI is done
UpdateEpisode(r) ==
  /\ runs[r].pc = "a_update"
  /\ \E ok \in BOOLEAN :
       LET rec == runs[r]
           e == rec.episode
       IN /\ episodes' = IF ok THEN [ episodes EXCEPT ![e] = AnalysedRow(@, rec.aiSummary) ]
                               ELSE episodes
          /\ IF rec.topicFlags # {}
               THEN /\ SetRun(r, [ rec EXCEPT !.pc = "a_flags" ])
                    /\ hist' = hist
               ELSE /\ SetRun(r, NextItem(rec))
                    /\ hist' = hist
  /\ UNCHANGED << service, clock, cronFired, podcasts, feed, fresh, topic_flags, started, emails >>

\* lines 175-182: step 5 inserts the flags (the result is not looked at)
InsertFlags(r) ==
  /\ runs[r].pc = "a_flags"
  /\ \E ok \in BOOLEAN :
       LET rec == runs[r]
           e == rec.episode
       IN /\ topic_flags' = IF ok
                              THEN topic_flags \cup
                                   { [ episode_id |-> e, topic_id |-> t ] : t \in rec.topicFlags }
                              ELSE topic_flags
          /\ hist' = hist
          /\ SetRun(r, NextItem(rec))
  /\ UNCHANGED << service, clock, cronFired, podcasts, feed, fresh, episodes, started, emails >>

\* ---- sendDailyDigest ----------------------------------------------------

\* lines 399-424: without settings or without an address the function returns;
\* else it requests the episodes published since `yesterday`, 24 hours before
\* the time of the request (Date.now(), line 410)
SelectSettings(r) ==
  /\ runs[r].pc = "d_settings"
  /\ \E email \in { Null, "user@example.org" } :
       LET rec == runs[r]
       IN SetRun(r, IF email # Null THEN [ rec EXCEPT !.pc = "d_query", !.to = email, !.stamp = clock ]
                    ELSE Finish(rec))
  /\ UNCHANGED << service, clock, cronFired, podcasts, feed, fresh, episodes, topic_flags, started, hist, emails >>

\* lines 409-432: the processed episodes published since yesterday, newest
\* first; without any the function returns, else the HTML is generated
SelectEpisodes(r) ==
  /\ runs[r].pc = "d_query"
  /\ \E ok \in BOOLEAN :
       LET rec == runs[r]
           list == OrderDesc(episodes, Eligible(episodes, rec.stamp))
       IN SetRun(r, IF ~ok \/ list = << >> THEN Finish(rec)
                    ELSE [ rec EXCEPT !.pc = "d_send", !.stamp = NullDate,
                                      !.priority = PriorityEpisodes(episodes, list),
                                      !.regular = RegularEpisodes(episodes, list) ])
  /\ UNCHANGED << service, clock, cronFired, podcasts, feed, fresh, episodes, topic_flags, started, hist, emails >>

\* lines 434-446: sendMail hands the message to the relay, or throws to the catch
SendMail(r) ==
  /\ runs[r].pc = "d_send"
  /\ LET rec == runs[r]
     IN \/ /\ emails' = Append(emails, [ run |-> r, to |-> rec.to,
                                         priority |-> rec.priority, regular |-> rec.regular ])
           /\ SetRun(r, Finish(rec))
        \/ /\ emails' = emails
           /\ SetRun(r, Finish(Caught(rec)))
  /\ UNCHANGED << service, clock, cronFired, podcasts, feed, fresh, episodes, topic_flags, started, hist >>

\* ---- the end of a callback ------------------------------------------------

\* lines 45, 51, 607-610, 616-619: the cron callback ends, the HTTP handler
\* sends HandlerReply
Respond(r) ==
  /\ runs[r].pc = "returned"
  /\ SetRun(r, [ IdleRun EXCEPT !.pc = "done" ])
  /\ UNCHANGED << service, clock, cronFired, podcasts, feed, fresh, episodes, topic_flags,
                  started, hist, emails >>

\* ---- specification ------------------------------------------------------

\* the continuation of `await checkAllFeeds()` / `await sendDailyDigest()` in a
\* callback runs as soon as the operation has returned, before any other event
NoneReturned == \A r \in RunIds : runs[r].pc # "returned"

Next ==
  \/ \E r \in RunIds : Respond(r)
  \/ LoadModule
  \/ NoneReturned /\ Tick
  \/ NoneReturned /\ Publish
  \/ NoneReturned /\ CronCheck
  \/ NoneReturned /\ CronDigest
  \/ NoneReturned /\ PostCheckFeeds
  \/ NoneReturned /\ PostSendDigest
  \/ \E r \in RunIds : NoneReturned /\ SelectPodcasts(r)
  \/ \E r \in RunIds : NoneReturned /\ FetchFeed(r)
  \/ \E r \in RunIds : NoneReturned /\ InsertEpisode(r)
  \/ \E r \in RunIds : NoneReturned /\ Transcribe(r)
  \/ \E r \in RunIds : NoneReturned /\ WriteAudio(r)
  \/ \E r \in RunIds : NoneReturned /\ Whisper(r)
  \/ \E r \in RunIds : NoneReturned /\ Summarize(r)
  \/ \E r \in RunIds : NoneReturned /\ SelectTopics(r)
  \/ \E r \in RunIds : NoneReturned /\ AnalyzeTopics(r)
  \/ \E r \in RunIds : NoneReturned /\ UpdatePriority(r)
  \/ \E r \in RunIds : NoneReturned /\ UpdateEpisode(r)
  \/ \E r \in RunIds : NoneReturned /\ InsertFlags(r)
  \/ \E r \in RunIds : NoneReturned /\ UpdateLastChecked(r)
  \/ \E r \in RunIds : NoneReturned /\ Delay(r)
  \/ \E r \in RunIds : NoneReturned /\ SelectSettings(r)
  \/ \E r \in RunIds : NoneReturned /\ SelectEpisodes(r)
  \/ \E r \in RunIds : NoneReturned /\ SendMail(r)

Spec == Init /\ [][Next]_vars

\* ---- a service started on feeds that already hold episodes ----------------

\* podcast 1's feed holds two items (newest first), one published in the night
\* before the first check, with an audio enclosure, and one long ago, without
\* one
InitBacklog ==
  /\ service = "loading"
  /\ clock = StartHour
  /\ cronFired = {}
  /\ podcasts = [ p \in PodcastIds |-> [ is_active |-> TRUE, last_checked |-> NullDate ] ]
  /\ feed = [ p \in PodcastIds |->
                IF p = 1 THEN << [ id |-> 2, pubDate |-> StartHour - TickHours, audio |-> TRUE ],
                                 [ id |-> 1, pubDate |-> OldDate, audio |-> FALSE ] >>
                         ELSE << >> ]
  /\ fresh = { << 1, 1 >>, << 1, 2 >> }
  /\ episodes = << >>
  /\ topic_flags = {}
  /\ runs = [ r \in RunIds |-> IdleRun ]
  /\ started = 0
  /\ hist = << >>
  /\ emails = << >>

\* the triggers and the steps of the runs; the feeds and the hour stay as they are
NextBacklog ==
  \/ \E r \in RunIds : Respond(r)
  \/ LoadModule
  \/ NoneReturned /\ CronCheck
  \/ NoneReturned /\ CronDigest
  \/ NoneReturned /\ PostCheckFeeds
  \/ NoneReturned /\ PostSendDigest
  \/ \E r \in RunIds : NoneReturned /\ SelectPodcasts(r)
  \/ \E r \in RunIds : NoneReturned /\ FetchFeed(r)
  \/ \E r \in RunIds : NoneReturned /\ InsertEpisode(r)
  \/ \E r \in RunIds : NoneReturned /\ Transcribe(r)
  \/ \E r \in RunIds : NoneReturned /\ WriteAudio(r)
  \/ \E r \in RunIds : NoneReturned /\ Whisper(r)
  \/ \E r \in RunIds : NoneReturned /\ Summarize(r)
  \/ \E r \in RunIds : NoneReturned /\ SelectTopics(r)
  \/ \E r \in RunIds : NoneReturned /\ AnalyzeTopics(r)
  \/ \E r \in RunIds : NoneReturned /\ UpdatePriority(r)
  \/ \E r \in RunIds : NoneReturned /\ UpdateEpisode(r)
  \/ \E r \in RunIds : NoneReturned /\ InsertFlags(r)
  \/ \E r \in RunIds : NoneReturned /\ UpdateLastChecked(r)
  \/ \E r \in RunIds : NoneReturned /\ Delay(r)
  \/ \E r \in RunIds : NoneReturned /\ SelectSettings(r)
  \/ \E r \in RunIds : NoneReturned /\ SelectEpisodes(r)
  \/ \E r \in RunIds : NoneReturned /\ SendMail(r)

SpecBacklog == InitBacklog /\ [][NextBacklog]_vars

\* ---- C2 -------------------------------------------------------------------

\* the ids of the rows checkAllFeeds selected, up to position n
VisitedUpTo(rec, n) == [ i \in 1 .. n |-> rec.podcasts[i].id ]

\* the items of the fetched feed, up to position n, whose publish date is
\* later than the last_checked of the row the run selected
NewUpTo(rec, n) ==
  { rec.items[k].id :
      k \in { j \in 1 .. n :
               rec.items[j].pubDate >
                 ( IF rec.podcasts[rec.idx].last_checked = NullDate THEN 0
                   ELSE rec.podcasts[rec.idx].last_checked ) } }

\* C2: catch, log and continue.  Whatever stage failed before, a feed check
\* that got its list of podcasts has called processPodcastFeed for every row up
\* to the current one and returns only after the last row, and a podcast whose
\* feed was fetched has had every new item up to the current one handed to
\* processNewEpisode, updates last_checked only after the last new item, and
\* is left (for the delay before the next podcast) only when every new item
\* of the feed has been handed to processNewEpisode.
CatchLogContinue ==
  \A r \in RunIds :
    LET rec == runs[r]
    IN rec.kind = "check" =>
         /\ rec.pc = "returned" =>
              \/ rec.visited = << >> /\ rec.caught
              \/ rec.visited = [ i \in 1 .. Len(SelectActive(podcasts, 1)) |->
                                   SelectActive(podcasts, 1)[i].id ]
         /\ rec.pc \in { "p_fetch", "e_insert", "a_transcribe", "a_write", "a_whisper", "a_summarize", "f_topics",
                         "f_llm", "f_priority", "a_update", "a_flags", "p_update", "c_delay" } =>
              rec.visited = VisitedUpTo(rec, rec.idx)
         /\ rec.pc \in { "e_insert", "a_transcribe", "a_write", "a_whisper", "a_summarize", "f_topics",
                         "f_llm", "f_priority", "a_update", "a_flags" } =>
              rec.handed = NewUpTo(rec, rec.pos)
         /\ rec.pc = "p_update" => rec.handed = NewUpTo(rec, Len(rec.items))
         /\ rec.pc = "c_delay" =>
              IF rec.fetched THEN rec.handed = NewUpTo(rec, Len(rec.items))
              ELSE rec.handed = {} /\ rec.caught

\* C2 witness: the insert of the first new item of podcast 1 failed, its second
\* item was still inserted, and the run has gone on to the second podcast
CatchLogContinueWitness ==
  \E r \in RunIds :
    /\ runs[r].kind = "check" /\ runs[r].caught
    /\ runs[r].pc = "p_fetch" /\ runs[r].idx = 2
    /\ started = 1
    /\ Len(feed[1]) = 2
    /\ Len(episodes) = 1
    /\ episodes[1].podcast_id = 1 /\ episodes[1].item = feed[1][2].id

\* ---- C1 -------------------------------------------------------------------

\* C1: execution is strictly sequential: at most one checkAllFeeds or
\* sendDailyDigest run is in progress at any time, whatever triggered it.
StrictlySequential == Cardinality({ r \in RunIds : Active(r) }) <= 1

\* ---- C3 -------------------------------------------------------------------

\* the topic_flags rows of episode e
FlagsOf(tbl, e) == { f \in tbl : f.episode_id = e }

\* transcription, summarization and topic flagging have all returned for row e
StagesFinished(e) ==
  \E r \in RunIds : runs[r].episode = e /\ runs[r].pc \in { "a_update", "a_flags" }

\* C3: the stages of an episode happen in the order transcribe, summarize, flag
\* topics, persist: every step that writes a result of the AI stages to the
\* row of an episode or to its topic_flags is taken after all three stages
\* have returned for that episode, and a digest is rendered from rows that
\* were already persisted as processed.
PersistAfterStages ==
  [][ /\ \A e \in 1 .. Len(episodes) :
           ( episodes'[e] # episodes[e] \/ FlagsOf(topic_flags', e) # FlagsOf(topic_flags, e) )
             => StagesFinished(e)
      /\ \A r \in RunIds :
           ( runs[r].pc = "d_query" /\ runs'[r].pc = "d_send" ) =>
             \A e \in Range(runs'[r].priority) \cup Range(runs'[r].regular) :
               e <= Len(episodes) /\ episodes[e].processed ]_vars

\* ---- C4 -------------------------------------------------------------------

\* C4: feed checks that do not overlap insert each feed item at most once: an
\* item that one check inserted, and after which last_checked was advanced, is
\* not inserted again by a check that started after that check had returned.
InsertedAtMostOnce ==
  \A i \in 1 .. Len(episodes), j \in 1 .. Len(episodes) :
    ( /\ episodes[i].podcast_id = episodes[j].podcast_id
      /\ episodes[i].item = episodes[j].item
      /\ hist[i].advanced
      /\ hist[i].run \in hist[j].before )
      => i = j

\* ---- C5 -------------------------------------------------------------------

Inserted(p, id) ==
  \E e \in 1 .. Len(episodes) : episodes[e].podcast_id = p /\ episodes[e].item = id

\* some feed check, this one or a later one, can still hand the item to
\* processNewEpisode: the stored last_checked is older than the item, or a run
\* in progress holds the item in its feed or holds an older last_checked for a
\* podcast it has yet to fetch
CanStillBeInserted(p, item) ==
  \/ IsNewItem(item, LastCheckedDate(podcasts[p].last_checked))
  \/ \E r \in RunIds :
       LET rec == runs[r]
       IN /\ rec.kind = "check" /\ rec.idx >= 1
          /\ \/ \E i \in rec.idx .. Len(rec.podcasts) :
                  /\ rec.podcasts[i].id = p
                  /\ i > rec.idx \/ rec.pc = "p_fetch"
                  /\ IsNewItem(item, LastCheckedDate(rec.podcasts[i].last_checked))
             \/ /\ rec.podcasts[rec.idx].id = p
                /\ rec.pc \in { "e_insert", "a_transcribe", "a_write", "a_whisper", "a_summarize", "f_topics",
                                "f_llm", "f_priority", "a_update", "a_flags" }
                /\ IsNewItem(item, LastChecked(rec))
                /\ \E k \in 1 .. Len(rec.items) :
                     /\ rec.items[k] = item
                     /\ k > rec.pos \/ ( k = rec.pos /\ rec.pc = "e_insert" )

\* C5: no new item is permanently skipped: an item that appeared in a feed with
\* a publish date later than the last_checked stored at that time has been
\* inserted as an episode, or a feed check can still insert it.
NoItemSkipped ==
  \A p \in PodcastIds :
    \A k \in 1 .. Len(feed[p]) :
      << p, feed[p][k].id >> \in fresh =>
        Inserted(p, feed[p][k].id) \/ CanStillBeInserted(p, feed[p][k])

\* ---- C6 -------------------------------------------------------------------

\* run r handed a digest to the mail relay
Sent(r) == \E i \in 1 .. Len(emails) : emails[i].run = r

\* the operation of run r ran to completion without an error
Completed(r) ==
  /\ ~runs[r].caught
  /\ runs[r].kind = "check" =>
       runs[r].visited = [ i \in 1 .. Len(SelectActive(podcasts, 1)) |->
                             SelectActive(podcasts, 1)[i].id ]
  /\ runs[r].kind = "digest" => Sent(r)

\* C6: the trigger endpoints report the outcome: the reply is success (200)
\* only when the operation ran to completion without an error, and it is 500
\* when the operation failed.
EndpointsReportOutcome ==
  \A r \in RunIds :
    ( runs[r].pc = "returned" /\ runs[r].trigger = "http" ) =>
      /\ HandlerReply(runs[r]) = 200 => Completed(r)
      /\ runs[r].caught => HandlerReply(runs[r]) = 500

\* ---- C7 -------------------------------------------------------------------

\* processEpisodeAI is over for row e
Ended(e) == \A r \in RunIds : runs[r].episode # e

\* C7: no retry and no recovery.  Each of transcription, summarization and
\* topic flagging is invoked at most once for an episode row, by at most one
\* run, and a row that is unprocessed when its processEpisodeAI is over is
\* unprocessed ever after and is never taken up by a run again.
NoRetry ==
  [][ \A e \in 1 .. Len(episodes') :
        /\ hist'[e].transcribeN <= 1 /\ hist'[e].summarizeN <= 1 /\ hist'[e].flagN <= 1
        /\ Cardinality({ r \in RunIds : runs'[r].episode = e }) <= 1
        /\ ( e <= Len(episodes) /\ Ended(e) /\ ~episodes[e].processed ) =>
             ( ~episodes'[e].processed /\ Ended(e)'
               /\ hist'[e].transcribeN = hist[e].transcribeN
               /\ hist'[e].summarizeN = hist[e].summarizeN
               /\ hist'[e].flagN = hist[e].flagN ) ]_vars

\* C7 witness: the only row was left unprocessed by the first run after its one
\* transcription attempt, and a second feed check has fetched the feed with the
\* row's item in it and handed nothing to processNewEpisode
NoRetryWitness ==
  /\ Len(episodes) = 1 /\ started = 2
  /\ Ended(1) /\ ~episodes[1].processed /\ hist[1].transcribeN = 1
  /\ runs[2].kind = "check" /\ runs[2].pc = "p_update" /\ runs[2].handed = {}
  /\ runs[2].podcasts[runs[2].idx].id = episodes[1].podcast_id
  /\ \E k \in 1 .. Len(runs[2].items) : runs[2].items[k].id = episodes[1].item

\* ---- C8 -------------------------------------------------------------------

\* C8: priority metadata is kept: a processed episode whose topic analysis
\* said priority_episode, and had that written to the row, has
\* priority_episode in its stored ai_summary once processEpisodeAI is over,
\* and no digest lists such an episode under 'Recent Episodes'.
PriorityKept ==
  /\ \A e \in 1 .. Len(episodes) :
       ( Ended(e) /\ episodes[e].processed /\ hist[e].priorityStored ) =>
         ParsePriority(episodes[e].ai_summary)
  /\ \A i \in 1 .. Len(emails) :
       \A e \in Range(emails[i].regular) : ~hist[e].priorityStored

\* ---- C9 -------------------------------------------------------------------

\* the episodes the claim wants in a digest queried at `now`
PublishedInLastDay(rows, now) ==
  { e \in 1 .. Len(rows) :
      rows[e].processed /\ now - DayHours <= rows[e].published_at /\ rows[e].published_at <= now }

\* C9: an invocation of sendDailyDigest sends at most one email, and none
\* without a recipient or without an eligible episode; what it renders is
\* exactly the processed episodes published within the 24 hours before it
\* requested its query, each in exactly one of the two sections.
DigestExact ==
  [][ /\ \A r \in RunIds :
           ( runs[r].pc = "d_query" /\ runs'[r].pc = "d_send" ) =>
             /\ Range(runs'[r].priority) \cup Range(runs'[r].regular)
                  = PublishedInLastDay(episodes, runs[r].stamp)
             /\ Range(runs'[r].priority) \cap Range(runs'[r].regular) = {}
             /\ Len(runs'[r].priority) + Len(runs'[r].regular)
                  = Cardinality(PublishedInLastDay(episodes, runs[r].stamp))
      /\ \A r \in RunIds :
           ( runs[r].pc = "d_query" /\ PublishedInLastDay(episodes, runs[r].stamp) = {} ) =>
             runs'[r].pc # "d_send"
      /\ emails' # emails =>
           \E r \in RunIds :
             /\ runs[r].pc = "d_send" /\ runs'[r].pc = "returned" /\ ~Sent(r)
             /\ runs[r].to # Null
             /\ emails' = Append(emails, [ run |-> r, to |-> runs[r].to,
                                           priority |-> runs[r].priority,
                                           regular |-> runs[r].regular ]) ]_vars

\* ---- C10 ------------------------------------------------------------------

\* C10: a processed episode has a transcript and an ai_summary; every
\* topic_flags row refers to a processed episode and to an active topic; an
\* episode whose transcription produced nothing is unprocessed and has no
\* ai_summary and no topic_flags rows.
StoreConsistent ==
  /\ \A e \in 1 .. Len(episodes) :
       /\ episodes[e].processed =>
            ( episodes[e].transcript # Null /\ episodes[e].ai_summary # Null )
       /\ ( Ended(e) /\ hist[e].transcribeN = 1 /\ hist[e].summarizeN = 0 ) =>
            /\ ~episodes[e].processed
            /\ episodes[e].ai_summary = Null
            /\ FlagsOf(topic_flags, e) = {}
  /\ \A f \in topic_flags :
       /\ f.episode_id <= Len(episodes) /\ episodes[f.episode_id].processed
       /\ f.topic_id \in ActiveTopics

\* ---- C11 ------------------------------------------------------------------

\* the digests sent to a recipient that list episode e
DigestsOf(e) ==
  { k \in 1 .. Len(emails) :
      emails[k].to # Null /\ e \in Range(emails[k].priority) \cup Range(emails[k].regular) }

\* C11: every processed episode is included in exactly one digest.  At any
\* moment a processed episode is listed by at most one digest that was sent,
\* and one that no digest lists yet is still within reach of a query: of one
\* that is pending, or of the next one, whose lower bound (now minus 24 hours)
\* only moves forward.
DigestedExactlyOnce ==
  \A e \in 1 .. Len(episodes) :
    episodes[e].processed =>
      /\ Cardinality(DigestsOf(e)) <= 1
      /\ DigestsOf(e) = {} =>
           \/ episodes[e].published_at >= clock - DayHours
           \/ \E r \in RunIds :
                /\ runs[r].pc = "d_query"
                /\ episodes[e].published_at >= runs[r].stamp - DayHours

====
